---------------------------- MODULE Spec2Model ----------------------------
(***************************************************************************)
(* Model of the portfolio-assistant retrieval pipeline                     *)
(* (backend/rag.py: chunk_text, retrieve, RAGPipeline) as it is driven by  *)
(* the request handlers of backend/main.py.                                *)
(*                                                                         *)
(* Texts are sequences of characters, each character a string.  Python    *)
(* indices are kept 0-based in every value the code computes (start, end,  *)
(* last_sep, chunk_sources, hit positions); only the access into a TLA+    *)
(* sequence adds 1.                                                        *)
(***************************************************************************)
EXTENDS Integers, Sequences, FiniteSets, TLC

---------------------------------------------------------------------------
(* Python string primitives used by chunk_text *)

Min(a, b) == IF a < b THEN a ELSE b
Max(a, b) == IF a > b THEN a ELSE b

\* The characters str.strip() removes: those str.isspace() holds of.  A
\* character a TLA+ string cannot hold is written as Python writes it, with
\* its code point: "\\x0b" is the one character chr(0x0b).
Whitespace ==
    {"\t", "\n", "\\x0b", "\f", "\r", "\\x1c", "\\x1d", "\\x1e", "\\x1f",
     " ", "\\x85", "\\xa0", "\\u1680", "\\u2000", "\\u2001", "\\u2002",
     "\\u2003", "\\u2004", "\\u2005", "\\u2006", "\\u2007", "\\u2008",
     "\\u2009", "\\u200a", "\\u2028", "\\u2029", "\\u202f", "\\u205f",
     "\\u3000"}

\* A slice bound as Python normalises it: negative counts from the end,
\* then clamped into 0..n.
SliceBound(i, n) == IF i < 0 THEN Max(i + n, 0) ELSE Min(i, n)

\* s[a:b]
PySlice(s, a, b) ==
    LET lo == SliceBound(a, Len(s))
        hi == SliceBound(b, Len(s))
    IN  IF lo < hi THEN SubSeq(s, lo + 1, hi) ELSE << >>

\* s.strip()
Strip(s) ==
    LET keep == {i \in 1..Len(s) : s[i] \notin Whitespace}
    IN  IF keep = {} THEN << >>
        ELSE LET first == CHOOSE i \in keep : \A j \in keep : i <= j
                 last  == CHOOSE i \in keep : \A j \in keep : i >= j
             IN  SubSeq(s, first, last)

\* s.rfind(sub): the highest 0-based index where sub occurs, or -1.
RFind(s, sub) ==
    LET hits == {i \in 0..(Len(s) - Len(sub)) :
                     \A j \in 1..Len(sub) : s[i + j] = sub[j]}
    IN  IF hits = {} THEN -1
        ELSE CHOOSE i \in hits : \A j \in hits : i >= j

---------------------------------------------------------------------------
(* chunk_text *)

\* The separators of the sentence-boundary search, in the order tried.
Separators ==
    << <<".", " ">>, <<".", "\n">>, <<"!", " ">>, <<"?", " ">>, <<"\n", "\n">> >>

\* The for-loop over the separators: the first separator of the list whose
\* last occurrence in the window lies past chunk_size // 2 moves end and
\* breaks; without one, end stays.  n is the index of the separator tried.
RECURSIVE SentenceBreak(_, _, _, _, _)
SentenceBreak(text, start, end, chunk_size, n) ==
    IF n > Len(Separators) THEN end
    ELSE LET sep      == Separators[n]
             last_sep == RFind(PySlice(text, start, end), sep)
         IN  IF last_sep > chunk_size \div 2
             THEN start + last_sep + Len(sep)
             ELSE SentenceBreak(text, start, end, chunk_size, n + 1)

\* end of the window that begins at start.
WindowEnd(text, start, chunk_size) ==
    LET end == start + chunk_size
    IN  IF end < Len(text)
        THEN SentenceBreak(text, start, end, chunk_size, 1)
        ELSE end

\* One pass of the while loop: the chunk list and start after it.
ChunkIteration(text, chunk_size, overlap, start, chs) ==
    LET end   == WindowEnd(text, start, chunk_size)
        chunk == Strip(PySlice(text, start, end))
    IN  [chunks |-> IF chunk # << >> THEN Append(chs, chunk) ELSE chs,
         start  |-> end - overlap,
         end    |-> end]

\* The guard of the first statement: the text is returned whole.
ReturnsWhole(text, chunk_size) == text = << >> \/ Len(text) <= chunk_size

WholeResult(text) == IF text # << >> THEN <<text>> ELSE << >>

RECURSIVE ChunkLoop(_, _, _, _, _)
ChunkLoop(text, chunk_size, overlap, start, chs) ==
    IF start < Len(text)
    THEN LET it == ChunkIteration(text, chunk_size, overlap, start, chs)
         IN  ChunkLoop(text, chunk_size, overlap, it.start, it.chunks)
    ELSE chs

chunk_text(text, chunk_size, overlap) ==
    IF ReturnsWhole(text, chunk_size)
    THEN WholeResult(text)
    ELSE ChunkLoop(text, chunk_size, overlap, 0, << >>)

DEFAULT_CHUNK_SIZE == 500
DEFAULT_OVERLAP == 50

---------------------------------------------------------------------------
(* Inputs *)

Rep(c, n) == [i \in 1..n |-> c]

\* The texts uploaded.  A document holds its text by its key in this table;
\* chunk_text works on the characters.
\*   T0  the empty text                                      -> no chunk
\*   T1  "hi"                                                -> "hi"
\*   T2  "hi", a paragraph break past the middle of the
\*       first window, "yo"  (534 characters)                -> "hi", "yo"
TextOf ==
    [T0 |-> << >>,
     T1 |-> <<"h", "i">>,
     T2 |-> <<"h", "i">> \o Rep(" ", 298) \o <<"\n", "\n">> \o Rep(" ", 230)
            \o <<"y", "o">>]

Texts == DOMAIN TextOf

DocIds == {"d1", "d2"}

\* The add_document calls explored, (doc_id, filename, file_type, text),
\* with the text among xs.
AddCallsWith(xs) ==
    {[id |-> "d1", filename |-> "a.txt", type |-> "txt", text |-> x] : x \in xs}
    \cup
    {[id |-> "d2", filename |-> "b.md", type |-> "md", text |-> x] : x \in xs}

\* Calls made one at a time use every text; overlapping requests upload the
\* one-chunk text as d1 and the two-chunk text as d2.
AddCalls == AddCallsWith(Texts)
OverlapAddCalls ==
    {c \in AddCalls : <<c.id, c.text>> \in {<<"d1", "T1">>, <<"d2", "T2">>}}

\* Ids asked of remove_document: those of the documents and one never added.
RemoveIds == DocIds \cup {"zz"}

\* top_k as chat passes it, and the top_k of the query calls made one at a
\* time.
TOP_K == 3
TopKs(overlapping) == IF overlapping THEN {TOP_K} ELSE {0, TOP_K}

\* The X-Session-ID headers of the requests.
SessionKeys == {"k1", "k2"}

\* The corpus holds at most MaxDocs documents, and so does the record of the
\* documents added.
MaxDocs == 2
\* The server runs coroutine handlers (upload_document) on its event loop
\* thread and plain handlers (delete_document, chat) on the worker threads
\* of its pool, NumPoolThreads of which are followed: two plain handlers can
\* run at once, beside an upload.
NumPoolThreads == 2
\* Calls begun in one run of overlapping requests.
MaxCalls == 3
\* Requests the session handlers serve at once.
MaxInFlight == 2
\* Sessions expire after SESSION_TTL_MINUTES; time passes in steps of the TTL
\* or a minute more, MaxTicks times at most.
SESSION_TTL_MINUTES == 30
Durations == {SESSION_TTL_MINUTES, SESSION_TTL_MINUTES + 1}
MaxTicks == 2

EventLoop == 0
PoolThreads == 1..NumPoolThreads
Threads == {EventLoop} \cup PoolThreads
\* Calls made one at a time need one worker thread.
OneAtATime == {EventLoop, 1}

---------------------------------------------------------------------------
(* Pipeline primitives *)

\* chunk_text(doc["text"]) with the default chunk_size and overlap, for
\* every text of the table.
ChunksOfText ==
    [x \in Texts |-> chunk_text(TextOf[x], DEFAULT_CHUNK_SIZE, DEFAULT_OVERLAP)]

DocChunks(doc) == ChunksOfText[doc.text]

\* self.documents.append({...})
AppendDocument(docs, call) ==
    Append(docs, [id |-> call.id, filename |-> call.filename,
                  type |-> call.type, text |-> call.text])

\* [d for d in self.documents if d["id"] != doc_id]
RemoveFilter(docs, doc_id) == SelectSeq(docs, LAMBDA d : d.id # doc_id)


\* self.chunks.extend(doc_chunks)
ExtendChunks(chs, doc_chunks) == chs \o doc_chunks

\* self.chunk_sources.extend([i] * len(doc_chunks))
ExtendSources(srcs, i, doc_chunks) == srcs \o [j \in 1..Len(doc_chunks) |-> i]

\* The vector of a text.  The embedding model is outside the repository; a
\* vector is identified by the text it was computed from.
Embed(t) == <<"vec", t>>

\* create_embeddings(texts), when the model answers.
create_embeddings(texts) == [i \in 1..Len(texts) |-> Embed(texts[i])]

\* build_index(embeddings): a new index holding one vector per embedding.
build_index(embeddings) == [present |-> TRUE, vectors |-> embeddings]

\* index.search(query_embedding, k): k labels, the positions of the min(k,
\* ntotal) best vectors in score order, then -1 for each label the index
\* cannot fill.  Scores depend on the embedding model, so every ranking is
\* possible.
SearchLabels(ix, k) ==
    LET n == Len(ix.vectors)
        m == Min(k, n)
    IN  {h \in [1..k -> -1..(n - 1)] :
            /\ \A i \in 1..m : h[i] >= 0
            /\ \A i \in 1..m : \A j \in 1..m : i # j => h[i] # h[j]
            /\ \A i \in (m + 1)..k : h[i] = -1}

\* The labels retrieve keeps: idx >= 0.
ValidLabels(h) == SelectSeq(h, LAMBDA idx : idx >= 0)

\* chunks[idx] raises IndexError for a label past the end of chunks.
CollectFails(h, chs) == \E i \in 1..Len(h) : h[i] >= Len(chs)

\* results of retrieve: the text at each label (pos records the label).
Collect(h, chs) ==
    [i \in 1..Len(h) |-> [text |-> chs[h[i] + 1], source |-> "", pos |-> h[i]]]

\* list.index(x): the first 0-based position of x, -1 standing for ValueError.
ListIndex(seq, x) ==
    LET at == {i \in 1..Len(seq) : seq[i] = x}
    IN  IF at = {} THEN -1
        ELSE (CHOOSE i \in at : \A j \in at : i <= j) - 1

\* chunk_idx = self.chunks.index(result["text"])
ChunkIdxOf(result, chs) == ListIndex(chs, result.text)

\* The chunk sequences of the documents, one after the other, and the
\* document index of each of those chunks.
RECURSIVE ConcatChunks(_)
ConcatChunks(docs) ==
    IF docs = << >> THEN << >>
    ELSE ConcatChunks(SubSeq(docs, 1, Len(docs) - 1)) \o DocChunks(docs[Len(docs)])

RECURSIVE OwnersOf(_)
OwnersOf(docs) ==
    IF docs = << >> THEN << >>
    ELSE OwnersOf(SubSeq(docs, 1, Len(docs) - 1))
         \o [j \in 1..Len(DocChunks(docs[Len(docs)])) |-> Len(docs) - 1]

\* get_documents: id, filename and type of each document, without the text.
DocMeta(d) == [id |-> d.id, filename |-> d.filename, type |-> d.type]
get_documents(docs) == [i \in 1..Len(docs) |-> DocMeta(docs[i])]

---------------------------------------------------------------------------
(* State *)

VARIABLES
    pipelines,       \* the RAGPipeline objects created, each with its
                     \* attributes documents, chunks, chunk_sources (0-based
                     \* document indices) and index
    pc,              \* per request thread: the statement it is at
    req,             \* per request thread: the call and its arguments
    loc,             \* per request thread: local variables of the call
    ret,             \* per request thread: how the call ended
    provider_failed, \* an embedding call has raised at some time (history)
    last_add,        \* the add_document answered last, if no other call
                     \* that changes the corpus was answered since (history)
    added,           \* where it is kept: the metadata of the documents
                     \* whose add_document returned, less those a
                     \* remove_document that returned True took out (history)
    started,         \* calls begun so far, counted where requests overlap
    ck,              \* one chunk_text call, traced statement by statement
    sessions,        \* main.sessions: session key -> Session object, 0 for
                     \* a key the dict does not hold
    session_objects, \* the Session objects created: the pipeline, the
                     \* last_active and the messages of each
    handler,         \* per request thread: the request handler it runs
    now,             \* datetime.now(), in minutes
    session_entries  \* the entries of the dict sessions, in the order of
                     \* insertion: the key of each, "" once it is deleted

\* The module-level pipeline of the calls made without a session, and the
\* pipeline whose method thread t runs: self.
ThePipeline == 1
Self(t) ==
    IF handler[t].session = 0 THEN ThePipeline
    ELSE session_objects[handler[t].session].pipeline
self(t) == pipelines[Self(t)]
\* The attributes of the one pipeline.
documents == pipelines[ThePipeline].documents
chunks == pipelines[ThePipeline].chunks
chunk_sources == pipelines[ThePipeline].chunk_sources
index == pipelines[ThePipeline].index

corpus == pipelines
\* What the statements of a running call leave alone.
registry == <<sessions, session_objects, handler, now, session_entries>>
rest == <<provider_failed, last_add, added, started, ck, registry>>
vars == <<pipelines, pc, req, loc, ret,
          provider_failed, last_add, added, started, ck,
          sessions, session_objects, handler, now, session_entries>>

\* self.index = None, and an index holding vectors.
NoIndex == [present |-> FALSE, vectors |-> << >>]
ntotal(ix) == Len(ix.vectors)

Snapshot ==
    [documents |-> documents, chunks |-> chunks,
     chunk_sources |-> chunk_sources, index |-> index]

NoReq == [op |-> "none", id |-> "", filename |-> "", type |-> "", text |-> "T0",
          top_k |-> 0]

NoRet == [status |-> "none", flag |-> FALSE, results |-> << >>, error |-> ""]
Returned == [NoRet EXCEPT !.status = "returned"]
Raised(e) == [NoRet EXCEPT !.status = "raised", !.error = e]

\* Locals of a call.  pre, embed_calls, rebuilds and removal_seen are
\* history: the corpus when the call began, what the call has done so far,
\* and whether a remove_document for the id this call adds was running
\* during the call or began after it.
Fresh ==
    [pre           |-> [documents |-> << >>, chunks |-> << >>,
                        chunk_sources |-> << >>, index |-> [present |-> FALSE,
                                                            vectors |-> << >>]],
     initial_count |-> 0,
     filtered      |-> << >>,
     iter_docs     |-> << >>,
     iter_live     |-> FALSE,
     iter_i        |-> 0,
     doc_chunks    |-> << >>,
     embeddings    |-> << >>,
     q_index       |-> NoIndex,
     q_chunks      |-> << >>,
     q_live        |-> FALSE,
     q_seen        |-> 0,
     hits          |-> << >>,
     results       |-> << >>,
     q_i           |-> 0,
     chunk_idx     |-> 0,
     doc_idx       |-> 0,
     embed_calls   |-> 0,
     rebuilds      |-> 0,
     removal_seen  |-> FALSE]

EmptyCorpus ==
    [documents |-> << >>, chunks |-> << >>, chunk_sources |-> << >>,
     index |-> NoIndex]

\* last_add: no such call, or the call's doc_id and the corpus it began with.
NoLastAdd == [valid |-> FALSE, id |-> "", pre |-> EmptyCorpus]

\* sessions = {}, and a request thread that runs no handler.
NoSessions == [k \in SessionKeys |-> 0]
HandlerIdle == [pc |-> "idle", op |-> "none", key |-> "", session |-> 0,
                call |-> NoReq, ret |-> NoRet, cutoff |-> 0, expired |-> << >>,
                di_used |-> 0, di_len |-> 0, di_pos |-> 0,
                active_sessions |-> 0]

ChunkIdle == [pc |-> "idle", text |-> << >>, chunk_size |-> 0, overlap |-> 0,
              start |-> 0, prev_start |-> 0, chunks |-> << >>, iters |-> 0]

\* added: the record is not kept, or it is kept and holds docs.
NotRecorded == [kept |-> FALSE, docs |-> << >>]
NoneAdded == [kept |-> TRUE, docs |-> << >>]

\* Idle request threads, no session.
Idle ==
    /\ pc = [t \in Threads |-> "idle"]
    /\ req = [t \in Threads |-> NoReq]
    /\ loc = [t \in Threads |-> Fresh]
    /\ ret = [t \in Threads |-> NoRet]
    /\ provider_failed = FALSE
    /\ last_add = NoLastAdd
    /\ started = 0
    /\ sessions = NoSessions
    /\ session_objects = << >>
    /\ handler = [t \in Threads |-> HandlerIdle]
    /\ now = 0
    /\ session_entries = << >>
    /\ ck = ChunkIdle

\* The same, with the one pipeline new: RAGPipeline().
Quiescent == Idle /\ pipelines = <<EmptyCorpus>>

Init == Quiescent /\ added = NotRecorded
\* The server as it starts: no pipeline before the first Session.
RegistryInit == Idle /\ pipelines = << >> /\ added = NotRecorded
\* The same, with the record of the documents added kept.
RecordInit == Quiescent /\ added = NoneAdded

---------------------------------------------------------------------------
(* Request threads *)

\* A call is running on thread t.
InProgress(t) == pc[t] \notin {"idle", "done"}

\* List objects are shared by reference.  A rebuild loop iterates the list
\* object self.documents named when the loop began, and retrieve holds the
\* list object self.chunks named at the call: each sees what is appended to
\* that object afterwards (iter_live, q_live) until the attribute is bound to
\* a new list.
\* t is the thread whose statement changes the list; the threads that see it
\* are those inside the same pipeline.
OnDocsAppend(L, t, docs) ==
    [u \in Threads |->
        IF L[u].iter_live /\ Self(u) = Self(t)
        THEN [L[u] EXCEPT !.iter_docs = docs] ELSE L[u]]
OnDocsRebind(L, t) ==
    [u \in Threads |->
        IF Self(u) = Self(t) THEN [L[u] EXCEPT !.iter_live = FALSE] ELSE L[u]]
OnChunksExtend(L, t, chs) ==
    [u \in Threads |->
        IF L[u].q_live /\ Self(u) = Self(t)
        THEN [L[u] EXCEPT !.q_chunks = chs] ELSE L[u]]
OnChunksRebind(L, t) ==
    [u \in Threads |->
        IF Self(u) = Self(t) THEN [L[u] EXCEPT !.q_live = FALSE] ELSE L[u]]

Goto(t, label) == pc' = [pc EXCEPT ![t] = label]

\* When a call begins.  The server has no lock and no queue: a call begins
\* whenever a request arrives, whatever the other threads are doing, and a
\* run holds MaxCalls calls.  The runs in which no two calls overlap are
\* those of a client that sends a request when the last is answered; they
\* are runs of the server among the others, taken alone (overlapping FALSE)
\* for what is the case even then.
MayBegin(overlapping) ==
    IF overlapping
    THEN started < MaxCalls /\ started' = started + 1
    ELSE (\A u \in Threads : pc[u] = "idle") /\ UNCHANGED started
Finish(t, r) == pc' = [pc EXCEPT ![t] = "done"] /\ ret' = [ret EXCEPT ![t] = r]

\* History: a remove_document(doc_id) is running; a remove_document(doc_id)
\* begins while add_document calls for doc_id are running or just over.
RemovalRunning(doc_id) ==
    \E u \in Threads : InProgress(u) /\ req[u].op = "remove" /\ req[u].id = doc_id
NoteRemoval(L, doc_id) ==
    [u \in Threads |->
        IF pc[u] # "idle" /\ req[u].op = "add" /\ req[u].id = doc_id
        THEN [L[u] EXCEPT !.removal_seen = TRUE] ELSE L[u]]

\* upload_document calls add_document.  upload_document is a coroutine with
\* no await from get_session to its return, so the event loop thread runs
\* one add_document at a time.
BeginAdd(t, overlapping) ==
    /\ t = EventLoop
    /\ pc[t] = "idle"
    /\ MayBegin(overlapping)
    /\ Len(documents) < MaxDocs
    /\ Len(added.docs) < MaxDocs
    /\ \E call \in (IF overlapping THEN OverlapAddCalls ELSE AddCalls) :
          req' = [req EXCEPT ![t] = [NoReq EXCEPT !.op = "add", !.id = call.id,
                     !.filename = call.filename, !.type = call.type,
                     !.text = call.text]]
    /\ loc' = [loc EXCEPT ![t] =
                  [Fresh EXCEPT !.pre = Snapshot,
                                !.removal_seen = RemovalRunning(req'[t].id)]]
    /\ ret' = [ret EXCEPT ![t] = NoRet]
    /\ Goto(t, "add_append")
    /\ UNCHANGED <<corpus, provider_failed, last_add, added, ck, registry>>

\* add_document: self.documents.append(...)
AddAppend(t) ==
    /\ pc[t] = "add_append"
    /\ pipelines' = [pipelines EXCEPT
                        ![Self(t)].documents = AppendDocument(@, req[t])]
    /\ loc' = OnDocsAppend(loc, t, pipelines'[Self(t)].documents)
    /\ Goto(t, "rb_clear_chunks")
    /\ UNCHANGED <<req, ret, rest>>

\* delete_document calls remove_document, on a pool thread.
BeginRemove(t, overlapping) ==
    /\ t \in PoolThreads
    /\ pc[t] = "idle"
    /\ MayBegin(overlapping)
    /\ \E id \in RemoveIds :
          /\ req' = [req EXCEPT ![t] = [NoReq EXCEPT !.op = "remove", !.id = id]]
          /\ loc' = [NoteRemoval(loc, id) EXCEPT
                        ![t] = [Fresh EXCEPT !.pre = Snapshot]]
    /\ ret' = [ret EXCEPT ![t] = NoRet]
    /\ Goto(t, "rm_count")
    /\ UNCHANGED <<corpus, provider_failed, last_add, added, ck, registry>>

\* remove_document: initial_count = len(self.documents)
RemoveCount(t) ==
    /\ pc[t] = "rm_count"
    /\ loc' = [loc EXCEPT ![t].initial_count = Len(self(t).documents)]
    /\ Goto(t, "rm_filter")
    /\ UNCHANGED <<corpus, req, ret, rest>>

\* remove_document: the list comprehension is evaluated ...
RemoveFilterStep(t) ==
    /\ pc[t] = "rm_filter"
    /\ loc' = [loc EXCEPT ![t].filtered =
                                 RemoveFilter(self(t).documents, req[t].id)]
    /\ Goto(t, "rm_assign")
    /\ UNCHANGED <<corpus, req, ret, rest>>

\* ... and the new list is bound to self.documents.
RemoveAssign(t) ==
    /\ pc[t] = "rm_assign"
    /\ pipelines' = [pipelines EXCEPT ![Self(t)].documents = loc[t].filtered]
    /\ loc' = OnDocsRebind(loc, t)
    /\ Goto(t, "rm_test")
    /\ UNCHANGED <<req, ret, rest>>

\* remove_document: if len(self.documents) < initial_count: rebuild, else
\* return False.
RemoveTest(t) ==
    /\ pc[t] = "rm_test"
    /\ IF Len(self(t).documents) < loc[t].initial_count
       THEN Goto(t, "rb_clear_chunks") /\ UNCHANGED ret
       ELSE Finish(t, Returned)
    /\ UNCHANGED <<corpus, req, loc, rest>>

\* _rebuild_index: self.chunks = []
RebuildClearChunks(t) ==
    /\ pc[t] = "rb_clear_chunks"
    /\ pipelines' = [pipelines EXCEPT ![Self(t)].chunks = << >>]
    /\ loc' = [OnChunksRebind(loc, t) EXCEPT ![t].rebuilds = @ + 1]
    /\ Goto(t, "rb_clear_sources")
    /\ UNCHANGED <<req, ret, rest>>

\* _rebuild_index: self.chunk_sources = []
RebuildClearSources(t) ==
    /\ pc[t] = "rb_clear_sources"
    /\ pipelines' = [pipelines EXCEPT ![Self(t)].chunk_sources = << >>]
    /\ Goto(t, "rb_for")
    /\ UNCHANGED <<req, loc, ret, rest>>

\* _rebuild_index: enumerate(self.documents) names the list to iterate.
RebuildFor(t) ==
    /\ pc[t] = "rb_for"
    /\ loc' = [loc EXCEPT ![t].iter_docs = self(t).documents,
                          ![t].iter_live = TRUE,
                          ![t].iter_i = 0]
    /\ Goto(t, "rb_next")
    /\ UNCHANGED <<corpus, req, ret, rest>>

\* _rebuild_index: the loop takes the next document and chunks its text, or
\* ends.
RebuildNext(t) ==
    /\ pc[t] = "rb_next"
    /\ IF loc[t].iter_i < Len(loc[t].iter_docs)
       THEN /\ loc' = [loc EXCEPT ![t].doc_chunks =
                           DocChunks(loc[t].iter_docs[loc[t].iter_i + 1])]
            /\ Goto(t, "rb_extend_chunks")
       ELSE /\ loc' = [loc EXCEPT ![t].iter_live = FALSE]
            /\ Goto(t, "rb_test")
    /\ UNCHANGED <<corpus, req, ret, rest>>

\* _rebuild_index: self.chunks.extend(doc_chunks)
RebuildExtendChunks(t) ==
    /\ pc[t] = "rb_extend_chunks"
    /\ pipelines' = [pipelines EXCEPT
                        ![Self(t)].chunks = ExtendChunks(@, loc[t].doc_chunks)]
    /\ loc' = OnChunksExtend(loc, t, pipelines'[Self(t)].chunks)
    /\ Goto(t, "rb_extend_sources")
    /\ UNCHANGED <<req, ret, rest>>

\* _rebuild_index: self.chunk_sources.extend([i] * len(doc_chunks))
RebuildExtendSources(t) ==
    /\ pc[t] = "rb_extend_sources"
    /\ pipelines' = [pipelines EXCEPT
                        ![Self(t)].chunk_sources =
                            ExtendSources(@, loc[t].iter_i, loc[t].doc_chunks)]
    /\ loc' = [loc EXCEPT ![t].iter_i = @ + 1]
    /\ Goto(t, "rb_next")
    /\ UNCHANGED <<req, ret, rest>>

\* _rebuild_index: if self.chunks
RebuildTest(t) ==
    /\ pc[t] = "rb_test"
    /\ Goto(t, IF self(t).chunks # << >> THEN "rb_embed" ELSE "rb_none")
    /\ UNCHANGED <<corpus, req, loc, ret, rest>>

\* _rebuild_index: embeddings = create_embeddings(self.chunks)
RebuildEmbed(t) ==
    /\ pc[t] = "rb_embed"
    /\ loc' = [loc EXCEPT ![t].embeddings = create_embeddings(self(t).chunks),
                          ![t].embed_calls = @ + 1]
    /\ Goto(t, "rb_build")
    /\ UNCHANGED <<corpus, req, ret, rest>>

\* The embedding model raises; nothing catches it up to the handler.
RebuildEmbedFails(t) ==
    /\ pc[t] = "rb_embed"
    /\ loc' = [loc EXCEPT ![t].embed_calls = @ + 1]
    /\ provider_failed' = TRUE
    /\ Finish(t, Raised("provider"))
    /\ UNCHANGED <<corpus, req, last_add, added, started, ck, registry>>

\* The value the call returns once the rebuild is over: add_document
\* returns None, remove_document True.
AfterRebuild(t) == [Returned EXCEPT !.flag = (req[t].op = "remove")]

\* _rebuild_index: self.index = build_index(embeddings)
RebuildBuild(t) ==
    /\ pc[t] = "rb_build"
    /\ pipelines' = [pipelines EXCEPT
                        ![Self(t)].index = build_index(loc[t].embeddings)]
    /\ Finish(t, AfterRebuild(t))
    /\ UNCHANGED <<req, loc, rest>>

\* _rebuild_index: self.index = None
RebuildNone(t) ==
    /\ pc[t] = "rb_none"
    /\ pipelines' = [pipelines EXCEPT ![Self(t)].index = NoIndex]
    /\ Finish(t, AfterRebuild(t))
    /\ UNCHANGED <<req, loc, rest>>

\* chat calls session.pipeline.query(request.message, top_k=3).  The question
\* only reaches the embedding model, whose ranking SearchLabels leaves open.
BeginQuery(t, overlapping) ==
    /\ t \in PoolThreads
    /\ pc[t] = "idle"
    /\ MayBegin(overlapping)
    /\ \E top_k \in TopKs(overlapping) :
          req' = [req EXCEPT ![t] = [NoReq EXCEPT !.op = "query",
                                                  !.top_k = top_k]]
    /\ loc' = [loc EXCEPT ![t] = [Fresh EXCEPT !.pre = Snapshot]]
    /\ ret' = [ret EXCEPT ![t] = NoRet]
    /\ Goto(t, "q_check")
    /\ UNCHANGED <<corpus, provider_failed, last_add, added, ck, registry>>

\* A query that goes on to retrieve without the test for an empty corpus.
QueryCheckSkipped(t) ==
    /\ pc[t] = "q_check"
    /\ Goto(t, "q_call") /\ UNCHANGED ret
    /\ UNCHANGED <<corpus, req, loc, rest>>

\* query: if not self.index or not self.chunks: return []
QueryCheck(t) ==
    /\ pc[t] = "q_check"
    /\ IF ~self(t).index.present \/ self(t).chunks = << >>
       THEN Finish(t, Returned)
       ELSE Goto(t, "q_call") /\ UNCHANGED ret
    /\ UNCHANGED <<corpus, req, loc, rest>>

\* query: retrieve(question, self.index, self.chunks, top_k) is called with
\* the index and the chunk list the attributes name now.  q_seen is the
\* length of that chunk list at this moment (history).
QueryCall(t) ==
    /\ pc[t] = "q_call"
    /\ loc' = [loc EXCEPT ![t].q_index = self(t).index,
                          ![t].q_chunks = self(t).chunks,
                          ![t].q_live = TRUE,
                          ![t].q_seen = Len(self(t).chunks)]
    /\ Goto(t, "q_embed")
    /\ UNCHANGED <<corpus, req, ret, rest>>

\* retrieve: query_embedding = create_embeddings([query])
QueryEmbed(t) ==
    /\ pc[t] = "q_embed"
    /\ loc' = [loc EXCEPT ![t].embed_calls = @ + 1]
    /\ Goto(t, "q_search")
    /\ UNCHANGED <<corpus, req, ret, rest>>

QueryEmbedFails(t) ==
    /\ pc[t] = "q_embed"
    /\ loc' = [loc EXCEPT ![t].embed_calls = @ + 1, ![t].q_live = FALSE]
    /\ provider_failed' = TRUE
    /\ Finish(t, Raised("provider"))
    /\ UNCHANGED <<corpus, req, last_add, added, started, ck, registry>>

\* How index.search(query_embedding, min(top_k, len(chunks))) can end.  A
\* None index has no search; with k = 0 the library either refuses the call
\* or returns no label, depending on its version.
SearchOutcomes(ix, k) ==
    IF ~ix.present THEN {"attribute_error"}
    ELSE IF k <= 0 THEN {"assertion_error", "labels"}
    ELSE {"labels"}

\* retrieve: scores, indices = index.search(...)
QuerySearch(t) ==
    /\ pc[t] = "q_search"
    /\ LET k == Min(req[t].top_k, Len(loc[t].q_chunks))
       IN  \E how \in SearchOutcomes(loc[t].q_index, k) :
              IF how = "labels"
              THEN /\ \E h \in SearchLabels(loc[t].q_index, Max(k, 0)) :
                         loc' = [loc EXCEPT ![t].hits = h]
                   /\ Goto(t, "q_collect")
                   /\ UNCHANGED ret
              ELSE /\ loc' = [loc EXCEPT ![t].q_live = FALSE]
                   /\ Finish(t, Raised(how))
    /\ UNCHANGED <<corpus, req, rest>>

\* retrieve: the loop that builds results from the labels.
QueryCollect(t) ==
    /\ pc[t] = "q_collect"
    /\ LET h == ValidLabels(loc[t].hits)
       IN  IF CollectFails(h, loc[t].q_chunks)
           THEN /\ loc' = [loc EXCEPT ![t].q_live = FALSE]
                /\ Finish(t, Raised("index_error"))
           ELSE /\ loc' = [loc EXCEPT ![t].results = Collect(h, loc[t].q_chunks),
                                      ![t].q_live = FALSE]
                /\ Goto(t, "q_for")
                /\ UNCHANGED ret
    /\ UNCHANGED <<corpus, req, rest>>

\* query: for i, result in enumerate(results), and return results once the
\* loop is over.  q_i is the number of results the loop has been through.
QueryFor(t) ==
    /\ pc[t] = "q_for"
    /\ IF loc[t].q_i < Len(loc[t].results)
       THEN Goto(t, "q_index") /\ UNCHANGED ret
       ELSE Finish(t, [Returned EXCEPT !.results = loc[t].results])
    /\ UNCHANGED <<corpus, req, loc, rest>>

\* query: chunk_idx = self.chunks.index(result["text"]), on the chunk list
\* the attribute names now; ValueError when the text is not in it.
QueryIndex(t) ==
    /\ pc[t] = "q_index"
    /\ LET at == ChunkIdxOf(loc[t].results[loc[t].q_i + 1], self(t).chunks)
       IN  IF at < 0
           THEN Finish(t, Raised("value_error")) /\ UNCHANGED loc
           ELSE /\ loc' = [loc EXCEPT ![t].chunk_idx = at]
                /\ Goto(t, "q_source")
                /\ UNCHANGED ret
    /\ UNCHANGED <<corpus, req, rest>>

\* query: doc_idx = self.chunk_sources[chunk_idx], on the list the attribute
\* names now; IndexError when it is shorter.
QuerySource(t) ==
    /\ pc[t] = "q_source"
    /\ IF loc[t].chunk_idx >= Len(self(t).chunk_sources)
       THEN Finish(t, Raised("index_error")) /\ UNCHANGED loc
       ELSE /\ loc' = [loc EXCEPT ![t].doc_idx =
                           self(t).chunk_sources[loc[t].chunk_idx + 1]]
            /\ Goto(t, "q_doc")
            /\ UNCHANGED ret
    /\ UNCHANGED <<corpus, req, rest>>

\* query: doc = self.documents[doc_idx], on the list the attribute names
\* now (IndexError when it is shorter), and result["source"] =
\* doc["filename"]; then the loop goes to its next result.
QueryDoc(t) ==
    /\ pc[t] = "q_doc"
    /\ IF loc[t].doc_idx >= Len(self(t).documents)
       THEN Finish(t, Raised("index_error")) /\ UNCHANGED loc
       ELSE /\ loc' = [loc EXCEPT
                  ![t].results[loc[t].q_i + 1].source =
                      self(t).documents[loc[t].doc_idx + 1].filename,
                  ![t].q_i = @ + 1]
            /\ Goto(t, "q_for")
            /\ UNCHANGED ret
    /\ UNCHANGED <<corpus, req, rest>>

\* History: last_add once the call of thread t is answered.  A query leaves
\* it; an add_document that returned, for an id the corpus did not hold,
\* sets it; any other add_document or remove_document clears it.
LastAddAfter(t) ==
    IF req[t].op \in {"query", "list"} THEN last_add
    ELSE IF /\ req[t].op = "add"
            /\ ret[t].status = "returned"
            /\ \A i \in 1..Len(loc[t].pre.documents) :
                   loc[t].pre.documents[i].id # req[t].id
         THEN [valid |-> TRUE, id |-> req[t].id, pre |-> loc[t].pre]
         ELSE NoLastAdd

\* History: added once the call of thread t is answered.
AddedAfter(t) ==
    IF ~added.kept THEN added
    ELSE IF req[t].op = "add" /\ ret[t].status = "returned"
    THEN [added EXCEPT !.docs = Append(@, DocMeta(req[t]))]
    ELSE IF req[t].op = "remove" /\ ret[t].status = "returned" /\ ret[t].flag
         THEN [added EXCEPT !.docs = SelectSeq(@, LAMBDA m : m.id # req[t].id)]
         ELSE added

\* list_documents calls get_documents, on a pool thread.
BeginList(t, overlapping) ==
    /\ t \in PoolThreads
    /\ pc[t] = "idle"
    /\ MayBegin(overlapping)
    /\ req' = [req EXCEPT ![t] = [NoReq EXCEPT !.op = "list"]]
    /\ loc' = [loc EXCEPT ![t] = [Fresh EXCEPT !.pre = Snapshot]]
    /\ ret' = [ret EXCEPT ![t] = NoRet]
    /\ Goto(t, "ls_collect")
    /\ UNCHANGED <<corpus, provider_failed, last_add, added, ck, registry>>

\* get_documents: the list comprehension over self.documents.
ListCollect(t) ==
    /\ pc[t] = "ls_collect"
    /\ Finish(t, [Returned EXCEPT !.results =
                                      get_documents(self(t).documents)])
    /\ UNCHANGED <<corpus, req, loc, rest>>

\* The handler has answered; the thread takes the next request.
Return(t) ==
    /\ pc[t] = "done"
    /\ pc' = [pc EXCEPT ![t] = "idle"]
    /\ req' = [req EXCEPT ![t] = NoReq]
    /\ loc' = [loc EXCEPT ![t] = Fresh]
    /\ ret' = [ret EXCEPT ![t] = NoRet]
    /\ last_add' = LastAddAfter(t)
    /\ added' = AddedAfter(t)
    /\ UNCHANGED <<corpus, provider_failed, started, ck, registry>>

\* A method that was entered runs its next statement.
Statements(t) ==
    \/ AddAppend(t)
    \/ RemoveCount(t) \/ RemoveFilterStep(t) \/ RemoveAssign(t) \/ RemoveTest(t)
    \/ RebuildClearChunks(t) \/ RebuildClearSources(t) \/ RebuildFor(t)
    \/ RebuildNext(t) \/ RebuildExtendChunks(t) \/ RebuildExtendSources(t)
    \/ RebuildTest(t) \/ RebuildEmbed(t) \/ RebuildEmbedFails(t)
    \/ RebuildBuild(t) \/ RebuildNone(t)
    \/ QueryCheck(t) \/ QueryCall(t) \/ QueryEmbed(t) \/ QueryEmbedFails(t)
    \/ QuerySearch(t) \/ QueryCollect(t)
    \/ QueryFor(t) \/ QueryIndex(t) \/ QuerySource(t) \/ QueryDoc(t)
    \/ ListCollect(t)
\* A handler that was entered runs its next statement, or answers.
Steps(t) == Statements(t) \/ Return(t)

\* Requests of one session served concurrently.
Next ==
    \E t \in Threads :
        \/ BeginAdd(t, TRUE) \/ BeginRemove(t, TRUE) \/ BeginQuery(t, TRUE)
        \/ BeginList(t, TRUE)
        \/ Steps(t)
Spec == Init /\ [][Next]_vars

\* The same handlers when the client sends one request at a time, any number
\* of them: the runs of Next in which no two calls overlap.  What fails here
\* fails in the server; what holds here is not thereby said of overlapping
\* calls.
SeqNext ==
    \E t \in OneAtATime :
        \/ BeginAdd(t, FALSE) \/ BeginRemove(t, FALSE) \/ BeginQuery(t, FALSE)
        \/ BeginList(t, FALSE)
        \/ Steps(t)
SeqSpec == Init /\ [][SeqNext]_vars
\* One call at a time, with the record of the documents added.
RecordSpec == RecordInit /\ [][SeqNext]_vars

---------------------------------------------------------------------------
(* Sessions *)

\* A Session whose pipeline is the first RAGPipeline ever made, shared by
\* every Session.
SessionSharingPipeline(objs, pipes) ==
    IF pipes = << >>
    THEN [session_objects |-> Append(objs, [pipeline |-> 1, last_active |-> now,
                                            messages |-> << >>]),
          pipelines       |-> <<EmptyCorpus>>,
          id              |-> Len(objs) + 1]
    ELSE [session_objects |-> Append(objs, [pipeline |-> 1, last_active |-> now,
                                            messages |-> << >>]),
          pipelines       |-> pipes,
          id              |-> Len(objs) + 1]

\* Session(): a new Session object; its pipeline is a new RAGPipeline, whose
\* __init__ binds new empty lists and no index; last_active is the time of
\* the construction and messages a new empty list.
NewSession(objs, pipes) ==
    [session_objects |-> Append(objs, [pipeline    |-> Len(pipes) + 1,
                                       last_active |-> now,
                                       messages    |-> << >>]),
     pipelines       |-> Append(pipes, EmptyCorpus),
     id              |-> Len(objs) + 1]

HandlerAt(t, label) == handler[t].pc = label
HandlerGoto(t, label) == handler' = [handler EXCEPT ![t].pc = label]
HandlerFinish(t, r) == handler' = [handler EXCEPT ![t].pc = "done", ![t].ret = r]
\* What a statement of a handler outside the pipeline leaves alone.
pipeline_model == <<corpus, pc, req, loc, ret, last_add, added, ck, now>>

\* The first statement of the handler of a request.
EntryOf(op) ==
    CASE op = "health" -> "cl_cutoff"
      [] op = "end"    -> "es_test"
      [] OTHER         -> "gs_test"

\* A request arrives: the handler is entered with the session key of the
\* header.  At most MaxCalls requests arrive, MaxInFlight of them served at
\* once; with one_per_key, a session sends its next request when it has the
\* answer to the last.  The pool threads are alike: of those that are idle
\* the first takes the request.
Arrive(t, op, key, call, one_per_key) ==
    /\ handler[t].pc = "idle"
    /\ \A u \in PoolThreads : (t \in PoolThreads /\ u < t) => handler[u].pc # "idle"
    /\ one_per_key => \A u \in Threads : handler[u].key # key
    /\ Cardinality({u \in Threads : handler[u].pc # "idle"}) < MaxInFlight
    /\ started < MaxCalls
    /\ started' = started + 1
    /\ handler' = [handler EXCEPT ![t] =
                      [HandlerIdle EXCEPT !.pc = EntryOf(op), !.op = op,
                                          !.key = key, !.call = call]]
    /\ UNCHANGED <<pipeline_model, provider_failed, sessions,
                   session_entries, session_objects>>

\* upload_document, on the event loop thread.
HandleUpload(t, one_per_key) ==
    /\ t = EventLoop
    /\ \E key \in SessionKeys, call \in OverlapAddCalls :
          Arrive(t, "add", key,
                 [NoReq EXCEPT !.op = "add", !.id = call.id,
                               !.filename = call.filename, !.type = call.type,
                               !.text = call.text],
                 one_per_key)

\* delete_document, list_documents and chat, on a pool thread.
HandleDelete(t, one_per_key) ==
    /\ t \in PoolThreads
    /\ \E key \in SessionKeys, doc_id \in DocIds :
          Arrive(t, "remove", key,
                 [NoReq EXCEPT !.op = "remove", !.id = doc_id], one_per_key)

HandleList(t, one_per_key) ==
    /\ t \in PoolThreads
    /\ \E key \in SessionKeys :
          Arrive(t, "list", key, [NoReq EXCEPT !.op = "list"], one_per_key)

HandleChat(t, one_per_key) ==
    /\ t \in PoolThreads
    /\ \E key \in SessionKeys :
          Arrive(t, "query", key,
                 [NoReq EXCEPT !.op = "query", !.top_k = TOP_K], one_per_key)

\* get_session: if session_id not in sessions
GetSessionTest(t) ==
    /\ HandlerAt(t, "gs_test")
    /\ HandlerGoto(t, IF sessions[handler[t].key] = 0 THEN "gs_create"
                                                     ELSE "gs_get")
    /\ UNCHANGED <<pipeline_model, provider_failed, started, sessions,
                   session_entries, session_objects>>

\* d[key] = value on a dict whose entries are, in order, entries: a new key
\* takes the next entry, a key the dict holds keeps its own.  (The entries
\* are laid out anew when the sixth key is inserted, which MaxCalls requests
\* do not reach.)
SetItemEntries(entries, key) ==
    IF \E i \in 1..Len(entries) : entries[i] = key THEN entries
    ELSE Append(entries, key)
\* del d[key]: the entry stays, without its key and value.
DelItemEntries(entries, key) ==
    [i \in 1..Len(entries) |-> IF entries[i] = key THEN "" ELSE entries[i]]
\* len(d)
LenEntries(entries) == Cardinality({i \in 1..Len(entries) : entries[i] # ""})

\* get_session: sessions[session_id] = Session()
GetSessionCreate(t) ==
    /\ HandlerAt(t, "gs_create")
    /\ LET new == NewSession(session_objects, pipelines)
       IN  /\ session_objects' = new.session_objects
           /\ pipelines' = new.pipelines
           /\ sessions' = [sessions EXCEPT ![handler[t].key] = new.id]
    /\ session_entries' = SetItemEntries(session_entries, handler[t].key)
    /\ HandlerGoto(t, "gs_get")
    /\ UNCHANGED <<pc, req, loc, ret, last_add, added, ck, now,
                   provider_failed, started>>

\* get_session: session = sessions[session_id]
GetSessionGet(t) ==
    /\ HandlerAt(t, "gs_get")
    /\ IF sessions[handler[t].key] = 0
       THEN HandlerFinish(t, Raised("key_error"))
       ELSE handler' = [handler EXCEPT ![t].pc = "gs_touch",
                                       ![t].session = sessions[handler[t].key]]
    /\ UNCHANGED <<pipeline_model, provider_failed, started, sessions,
                   session_entries, session_objects>>

\* get_session: session.last_active = datetime.now(); return session
GetSessionTouch(t) ==
    /\ HandlerAt(t, "gs_touch")
    /\ session_objects' = [session_objects EXCEPT
                              ![handler[t].session].last_active = now]
    /\ HandlerGoto(t, "call")
    /\ UNCHANGED <<pipeline_model, provider_failed, started, sessions,
                   session_entries>>

\* The first statement of the pipeline method a handler calls.
MethodEntry(op) ==
    CASE op = "add"    -> "add_append"
      [] op = "remove" -> "rm_count"
      [] op = "query"  -> "q_check"
      [] OTHER         -> "ls_collect"

\* The handler calls session.pipeline.add_document, remove_document, query
\* or get_documents with the arguments of the request: the thread enters the
\* method, whose statements are those of the request threads above, run on
\* the attributes of that pipeline whatever the other threads are in.  The
\* history of Spec (pre and removal_seen of the call, last_add, added) is
\* that of its one pipeline and is not kept here.
PipelineCall(t) ==
    /\ HandlerAt(t, "call")
    /\ pc[t] = "idle"
    /\ req' = [req EXCEPT ![t] = handler[t].call]
    /\ Goto(t, MethodEntry(handler[t].call.op))
    /\ loc' = [loc EXCEPT ![t] = Fresh]
    /\ ret' = [ret EXCEPT ![t] = NoRet]
    /\ HandlerGoto(t, "in_call")
    /\ UNCHANGED <<corpus, provider_failed, last_add, added, started, ck, now,
                   sessions, session_entries, session_objects>>

\* The method has returned or raised and the handler has its outcome: chat
\* goes on with the context query returned, the other handlers and a chat
\* whose query raised are over.
PipelineReturn(t) ==
    /\ HandlerAt(t, "in_call")
    /\ pc[t] = "done"
    /\ handler' = [handler EXCEPT
                      ![t].pc = IF req[t].op = "query"
                                   /\ ret[t].status = "returned"
                                THEN "answer" ELSE "done",
                      ![t].ret = ret[t]]
    /\ pc' = [pc EXCEPT ![t] = "idle"]
    /\ req' = [req EXCEPT ![t] = NoReq]
    /\ loc' = [loc EXCEPT ![t] = Fresh]
    /\ ret' = [ret EXCEPT ![t] = NoRet]
    /\ UNCHANGED <<corpus, provider_failed, last_add, added, started, ck, now,
                   sessions, session_entries, session_objects>>

\* chat: answer = generate_answer(...), which reads the context and
\* session.messages and returns a string whatever the provider does.
ChatAnswer(t) ==
    /\ HandlerAt(t, "answer")
    /\ HandlerGoto(t, "rec_user")
    /\ UNCHANGED <<pipeline_model, provider_failed, started, sessions,
                   session_entries, session_objects>>

\* chat: session.messages.append({"role": "user", ...})
ChatRecordUser(t) ==
    /\ HandlerAt(t, "rec_user")
    /\ session_objects' = [session_objects EXCEPT
                              ![handler[t].session].messages = Append(@, "user")]
    /\ HandlerGoto(t, "rec_assistant")
    /\ UNCHANGED <<pipeline_model, provider_failed, started, sessions,
                   session_entries>>

\* chat: session.messages.append({"role": "assistant", ...}); return
ChatRecordAssistant(t) ==
    /\ HandlerAt(t, "rec_assistant")
    /\ session_objects' = [session_objects EXCEPT
                              ![handler[t].session].messages =
                                  Append(@, "assistant")]
    /\ HandlerGoto(t, "done")
    /\ UNCHANGED <<pipeline_model, provider_failed, started, sessions,
                   session_entries>>

\* end_session, on a pool thread.
HandleEnd(t, one_per_key) ==
    /\ t \in PoolThreads
    /\ \E key \in SessionKeys :
          Arrive(t, "end", key, [NoReq EXCEPT !.op = "end"], one_per_key)

\* end_session: if x_session_id in sessions
EndSessionTest(t) ==
    /\ HandlerAt(t, "es_test")
    /\ IF sessions[handler[t].key] = 0
       THEN HandlerFinish(t, Returned)
       ELSE HandlerGoto(t, "es_del")
    /\ UNCHANGED <<pipeline_model, provider_failed, started, sessions,
                   session_entries, session_objects>>

\* end_session: del sessions[x_session_id]; return "session ended"
EndSessionDelete(t) ==
    /\ HandlerAt(t, "es_del")
    /\ IF sessions[handler[t].key] = 0
       THEN /\ HandlerFinish(t, Raised("key_error"))
            /\ UNCHANGED <<sessions, session_entries>>
       ELSE /\ sessions' = [sessions EXCEPT ![handler[t].key] = 0]
            /\ session_entries' = DelItemEntries(session_entries,
                                                 handler[t].key)
            /\ HandlerFinish(t, [Returned EXCEPT !.flag = TRUE])
    /\ UNCHANGED <<pipeline_model, provider_failed, started, session_objects>>

\* health_check, on a pool thread: it runs cleanup_sessions.
HandleHealth(t) ==
    /\ t \in PoolThreads
    /\ Arrive(t, "health", "", [NoReq EXCEPT !.op = "health"], FALSE)

\* cleanup_sessions: cutoff = datetime.now() - timedelta(minutes=30)
CleanupCutoff(t) ==
    /\ HandlerAt(t, "cl_cutoff")
    /\ handler' = [handler EXCEPT ![t].pc = "cl_expired",
                                   ![t].cutoff = now - SESSION_TTL_MINUTES]
    /\ UNCHANGED <<pipeline_model, provider_failed, started, sessions,
                   session_entries, session_objects>>

\* cleanup_sessions: expired = [sid for sid, s in sessions.items() if ...]
\* begins: the iterator over the items of the dict is made, which keeps the
\* size of the dict (di_used), the items it has yet to give (di_len) and
\* its place in the entries (di_pos).
CleanupExpired(t) ==
    /\ HandlerAt(t, "cl_expired")
    /\ handler' = [handler EXCEPT
                      ![t].pc = "cl_scan",
                      ![t].expired = << >>,
                      ![t].di_used = LenEntries(session_entries),
                      ![t].di_len = LenEntries(session_entries),
                      ![t].di_pos = 0]
    /\ UNCHANGED <<pipeline_model, provider_failed, started, sessions,
                   session_entries, session_objects>>

\* The comprehension asks the iterator for its next item.  The iterator
\* raises RuntimeError when the size of the dict is no longer the one it
\* kept ("dictionary changed size during iteration") and when it finds an
\* entry after having given as many as the dict held ("dictionary keys
\* changed during iteration"); after the last entry the list is complete.
\* Otherwise it gives the key and the Session of the next entry in use,
\* and the key joins the list if s.last_active < cutoff.  What another
\* thread does between the item and its test it might as well do just
\* before the item or just after the test.
CleanupScan(t) ==
    /\ HandlerAt(t, "cl_scan")
    /\ LET h     == handler[t]
           later == {i \in (h.di_pos + 1)..Len(session_entries) :
                        session_entries[i] # ""}
       IN  IF h.di_used # LenEntries(session_entries)
           THEN HandlerFinish(t, Raised("runtime_error"))
           ELSE IF later = {}
           THEN HandlerGoto(t, "cl_del")
           ELSE IF h.di_len = 0
           THEN HandlerFinish(t, Raised("runtime_error"))
           ELSE LET i   == CHOOSE m \in later : \A o \in later : m <= o
                    sid == session_entries[i]
                    s   == session_objects[sessions[sid]]
                IN  handler' = [handler EXCEPT
                                   ![t].di_pos = i,
                                   ![t].di_len = @ - 1,
                                   ![t].expired =
                                       IF s.last_active < h.cutoff
                                       THEN Append(@, sid) ELSE @]
    /\ UNCHANGED <<pipeline_model, provider_failed, started, sessions,
                   session_entries, session_objects>>

\* cleanup_sessions: for sid in expired: del sessions[sid]; after the loop
\* cleanup_sessions returns.
CleanupDelete(t) ==
    /\ HandlerAt(t, "cl_del")
    /\ IF handler[t].expired = << >>
       THEN /\ HandlerGoto(t, "hc_return")
            /\ UNCHANGED <<sessions, session_entries>>
       ELSE LET sid == Head(handler[t].expired)
            IN  IF sessions[sid] = 0
                THEN /\ HandlerFinish(t, Raised("key_error"))
                     /\ UNCHANGED <<sessions, session_entries>>
                ELSE /\ sessions' = [sessions EXCEPT ![sid] = 0]
                     /\ session_entries' = DelItemEntries(session_entries, sid)
                     /\ handler' = [handler EXCEPT
                                       ![t].expired = Tail(handler[t].expired)]
    /\ UNCHANGED <<pipeline_model, provider_failed, started, session_objects>>

\* health_check: return {"status": "healthy", "active_sessions": len(sessions)}
HealthReturn(t) ==
    /\ HandlerAt(t, "hc_return")
    /\ handler' = [handler EXCEPT ![t].pc = "done", ![t].ret = Returned,
                                   ![t].active_sessions =
                                       LenEntries(session_entries)]
    /\ UNCHANGED <<pipeline_model, provider_failed, started, sessions,
                   session_entries, session_objects>>

\* Time passes, in minutes: between requests, a request taking far less.
Tick ==
    /\ \A t \in Threads : handler[t].pc = "idle"
    /\ \E d \in Durations :
          /\ now + d <= MaxTicks * (SESSION_TTL_MINUTES + 1)
          /\ now' = now + d
    /\ UNCHANGED <<corpus, pc, req, loc, ret, last_add, added, ck,
                   provider_failed, started, sessions, session_entries,
                   session_objects, handler>>

\* The response is sent; the thread takes the next request.
HandlerReturn(t) ==
    /\ HandlerAt(t, "done")
    /\ handler' = [handler EXCEPT ![t] = HandlerIdle]
    /\ UNCHANGED <<pipeline_model, provider_failed, started, sessions,
                   session_entries, session_objects>>

\* The statements of get_session and of the pipeline method called.
Serve(t) ==
    \/ GetSessionTest(t) \/ GetSessionCreate(t) \/ GetSessionGet(t)
    \/ GetSessionTouch(t)
    \/ PipelineCall(t)
    \/ Statements(t)
    \/ PipelineReturn(t)
    \/ ChatAnswer(t) \/ ChatRecordUser(t) \/ ChatRecordAssistant(t)
    \/ HandlerReturn(t)

\* Requests of several sessions served concurrently, those of one session
\* one after the other.
SessNext ==
    \E t \in Threads :
        \/ HandleUpload(t, TRUE) \/ HandleDelete(t, TRUE)
        \/ HandleList(t, TRUE) \/ HandleChat(t, TRUE)
        \/ Serve(t)
SessSpec == RegistryInit /\ [][SessNext]_vars

\* The same handlers, with requests of one session overlapping too.
RaceNext ==
    \E t \in Threads :
        \/ HandleUpload(t, FALSE) \/ HandleDelete(t, FALSE)
        \/ HandleList(t, FALSE) \/ HandleChat(t, FALSE)
        \/ Serve(t)
RaceSpec == RegistryInit /\ [][RaceNext]_vars

\* The handlers with health_check and end_session among them, while time
\* passes; the requests of one session come one after the other.
TtlNext ==
    \/ Tick
    \/ \E t \in Threads :
          \/ HandleUpload(t, TRUE) \/ HandleDelete(t, TRUE)
          \/ HandleList(t, TRUE) \/ HandleChat(t, TRUE)
          \/ HandleEnd(t, TRUE) \/ HandleHealth(t)
          \/ Serve(t)
          \/ EndSessionTest(t) \/ EndSessionDelete(t)
          \/ CleanupCutoff(t) \/ CleanupExpired(t) \/ CleanupScan(t)
          \/ CleanupDelete(t)
          \/ HealthReturn(t)
TtlSpec == RegistryInit /\ [][TtlNext]_vars

---------------------------------------------------------------------------
(* chunk_text, statement by statement *)

ChunkAlphabet == {"a", " ", "."}
MaxTextLen == 4
MaxChunkSize == 3
\* Passes of the while loop traced before the trace is cut.
MaxIters == 6

RECURSIVE TextsUpTo(_)
TextsUpTo(n) ==
    IF n = 0 THEN {<< >>}
    ELSE LET shorter == TextsUpTo(n - 1)
         IN  shorter \cup {Append(x, c) : x \in {y \in shorter : Len(y) = n - 1},
                                          c \in ChunkAlphabet}

ChunkTexts == TextsUpTo(MaxTextLen)
ChunkSizes == -1..MaxChunkSize
Overlaps == -1..MaxChunkSize

ValidChunking(chunk_size, overlap) ==
    chunk_size > 0 /\ 0 <= overlap /\ overlap < chunk_size

\* "The sky is blue. Water is wet."
SkyText ==
    <<"T", "h", "e", " ", "s", "k", "y", " ", "i", "s", " ",
      "b", "l", "u", "e", ".", " ",
      "W", "a", "t", "e", "r", " ", "i", "s", " ", "w", "e", "t", ".">>

\* Texts longer than a window with no, one or two sentence separators
\* between two runs of a letter, chunked with windows of 7 and 9 characters.
Markers == {Separators[n] : n \in 1..Len(Separators)} \cup {<< >>}
MarkerTexts ==
    {Rep("a", i) \o m1 \o m2 \o Rep("a", j) :
        i \in 4..5, j \in 1..3, m1 \in Markers, m2 \in Markers}

\* The chunk_text calls traced: every text over ChunkAlphabet up to
\* MaxTextLen characters with every chunk_size and overlap up to
\* MaxChunkSize, the sentence scenario, and the separator texts.
SmallCalls ==
    {[text |-> text, chunk_size |-> chunk_size, overlap |-> overlap] :
        text \in ChunkTexts, chunk_size \in ChunkSizes, overlap \in Overlaps}
ScenarioCalls ==
    {[text |-> SkyText, chunk_size |-> 15, overlap |-> 3]}
    \cup
    {[text |-> text, chunk_size |-> chunk_size, overlap |-> overlap] :
        text \in MarkerTexts, chunk_size \in {7, 9}, overlap \in {0, 6}}
ChunkCalls == SmallCalls \cup ScenarioCalls

ChunkInit ==
    /\ pipelines = << >>
    /\ pc = [t \in Threads |-> "idle"]
    /\ req = [t \in Threads |-> NoReq]
    /\ loc = [t \in Threads |-> Fresh]
    /\ ret = [t \in Threads |-> NoRet]
    /\ provider_failed = FALSE
    /\ last_add = NoLastAdd
    /\ added = NotRecorded
    /\ started = 0
    /\ sessions = NoSessions
    /\ session_objects = << >>
    /\ handler = [t \in Threads |-> HandlerIdle]
    /\ now = 0
    /\ session_entries = << >>
    /\ \E call \in ChunkCalls :
          ck = [ChunkIdle EXCEPT !.pc = "called", !.text = call.text,
                                 !.chunk_size = call.chunk_size,
                                 !.overlap = call.overlap]

\* if not text or len(text) <= chunk_size: return [text] if text else []
ChunkEnter ==
    /\ ck.pc = "called"
    /\ IF ReturnsWhole(ck.text, ck.chunk_size)
       THEN ck' = [ck EXCEPT !.pc = "returned", !.chunks = WholeResult(ck.text)]
       ELSE ck' = [ck EXCEPT !.pc = "loop", !.start = 0, !.chunks = << >>]
    /\ UNCHANGED <<corpus, pc, req, loc, ret, provider_failed, last_add,
                   added, started, registry>>

\* One pass of while start < len(text).
ChunkPass ==
    /\ ck.pc = "loop"
    /\ ck.start < Len(ck.text)
    /\ ck.iters < MaxIters
    /\ LET it == ChunkIteration(ck.text, ck.chunk_size, ck.overlap, ck.start,
                                ck.chunks)
       IN  ck' = [ck EXCEPT !.chunks = it.chunks, !.start = it.start,
                            !.prev_start = ck.start, !.iters = @ + 1]
    /\ UNCHANGED <<corpus, pc, req, loc, ret, provider_failed, last_add,
                   added, started, registry>>

\* The loop condition fails: return chunks.
ChunkExit ==
    /\ ck.pc = "loop"
    /\ ~(ck.start < Len(ck.text))
    /\ ck' = [ck EXCEPT !.pc = "returned"]
    /\ UNCHANGED <<corpus, pc, req, loc, ret, provider_failed, last_add,
                   added, started, registry>>

ChunkNext == ChunkEnter \/ ChunkPass \/ ChunkExit
ChunkSpec == ChunkInit /\ [][ChunkNext]_vars

---------------------------------------------------------------------------
(* Properties *)

Mutation(t) == req[t].op \in {"add", "remove"}
Answered(t) == pc[t] = "done"
ReturnedFrom(t, op) ==
    Answered(t) /\ req[t].op = op /\ ret[t].status = "returned"
RaisedFrom(t, op) ==
    Answered(t) /\ req[t].op = op /\ ret[t].status = "raised"

IdsOf(docs) == {docs[i].id : i \in 1..Len(docs)}

\* C1: when the embedding provider raises during the rebuild of an
\* add_document or remove_document, the documents, chunks, chunk-to-document
\* mapping and index are what they were before the call.
C1_FailedCallLeavesCorpus ==
    \A t \in Threads :
        (Answered(t) /\ Mutation(t) /\ ret[t].status = "raised")
            => Snapshot = loc[t].pre

\* C2: a query running alongside add_document or remove_document never
\* reads a chunk list whose length differs from the number of vectors of the
\* index it reads (no embedding call has failed).
C2_QueryReadsAlignedIndex ==
    \A t \in Threads :
        (/\ req[t].op = "query"
         /\ pc[t] \in {"q_embed", "q_search", "q_collect", "q_for",
                      "q_index", "q_source", "q_doc"}
         /\ ~provider_failed)
            => loc[t].q_seen = ntotal(loc[t].q_index)

\* C3: after every add_document or remove_document that returns, an index
\* that exists holds len(chunks) vectors, and the index is None exactly when
\* chunks is empty.
C3_IndexMatchesChunks ==
    \A t \in Threads :
        (Answered(t) /\ Mutation(t) /\ ret[t].status = "returned")
            => /\ index.present => ntotal(index) = Len(chunks)
               /\ ~index.present <=> chunks = << >>

\* C4: every hit a query returns carries the filename of the document that
\* owns the chunk at the hit's position, also when another document has a
\* chunk with the same text (stated for runs in which no embedding call has
\* failed).
C4_HitAttributedByPosition ==
    \A t \in Threads :
        (ReturnedFrom(t, "query") /\ ~provider_failed) =>
            \A i \in 1..Len(ret[t].results) :
                LET r == ret[t].results[i]
                IN  r.source = documents[chunk_sources[r.pos + 1] + 1].filename

\* C5: calls on one corpus are serialised, so that no added document is
\* lost: a document whose add_document returned is in the document list
\* unless a remove_document for its id ran during the call or after it.
C5_NoAddedDocumentLost ==
    \A t \in Threads :
        (ReturnedFrom(t, "add") /\ ~loc[t].removal_seen)
            => req[t].id \in IdsOf(documents)

\* The exclusion C5 rests on: no call runs while an add_document or a
\* remove_document runs.
MutuallyExclusive ==
    \A t \in Threads : \A u \in Threads \ {t} :
        ~(InProgress(t) /\ InProgress(u) /\ Mutation(t))

\* C6: after every add_document or remove_document that returns, chunks is
\* the concatenation, in document order, of each document's chunk sequence,
\* chunk_sources is as long as chunks, and the owner of every chunk is the
\* document of the list the chunk was cut from.
C6_ChunksConcatenateDocuments ==
    \A t \in Threads :
        (Answered(t) /\ Mutation(t) /\ ret[t].status = "returned")
            => /\ chunks = ConcatChunks(documents)
               /\ Len(chunk_sources) = Len(chunks)
               /\ chunk_sources = OwnersOf(documents)
               /\ \A j \in 1..Len(chunk_sources) :
                     chunk_sources[j] \in 0..(Len(documents) - 1)

\* A hit is attributed to a document of the list, cut from that document.
AttributedToPresent(r) ==
    \E i \in 1..Len(documents) :
        /\ r.source = documents[i].filename
        /\ \E j \in 1..Len(DocChunks(documents[i])) :
              DocChunks(documents[i])[j] = r.text

\* C7: after remove_document(A.id) returned True, the documents are those
\* held before without A, chunks is their chunks, and the index has that
\* many vectors; every hit of a query has the text and the filename of a
\* document of the list, never of one that was removed.
C7_RemovedDocumentIsGone ==
    \A t \in Threads :
        /\ (ReturnedFrom(t, "remove") /\ ret[t].flag)
              => /\ req[t].id \notin IdsOf(documents)
                 /\ documents =
                       SelectSeq(loc[t].pre.documents,
                                 LAMBDA d : d.id # req[t].id)
                 /\ chunks = ConcatChunks(documents)
                 /\ ntotal(index) = Len(chunks)
        /\ ReturnedFrom(t, "query")
              => \A i \in 1..Len(ret[t].results) :
                    AttributedToPresent(ret[t].results[i])

\* C8: add_document(D) and then remove_document(D.id), D.id not in the
\* corpus before, leave the documents, chunks and index as they were before
\* the add.
C8_AddThenRemoveRestores ==
    \A t \in Threads :
        (/\ ReturnedFrom(t, "remove")
         /\ last_add.valid
         /\ last_add.id = req[t].id)
            => /\ documents = last_add.pre.documents
               /\ chunks = last_add.pre.chunks
               /\ index = last_add.pre.index

\* C9: remove_document returns True exactly when a document with the id was
\* held before the call; for an unknown id it returns False without raising,
\* without a rebuild or an embedding call, and leaves the corpus as it was.
C9_RemoveReportsPresence ==
    \A t \in Threads :
        (Answered(t) /\ req[t].op = "remove")
            => LET held == req[t].id \in IdsOf(loc[t].pre.documents)
               IN  /\ ret[t].status = "returned" => (ret[t].flag <=> held)
                   /\ ~held => /\ ret[t].status = "returned"
                               /\ ~ret[t].flag
                               /\ loc[t].rebuilds = 0
                               /\ loc[t].embed_calls = 0
                               /\ Snapshot = loc[t].pre

\* C10: chunk_text with chunk_size <= 0, overlap < 0 or overlap >= chunk_size
\* fails at once: it neither enters the loop nor returns chunks.
C10_InvalidParametersRejected ==
    ~ValidChunking(ck.chunk_size, ck.overlap) => ck.pc \in {"idle", "called"}

\* With such parameters a pass of the loop can leave start where it was.
LoopAdvances ==
    (ck.pc = "loop" /\ ck.iters > 0) => ck.start > ck.prev_start

\* A chunk_text call with valid parameters has returned.
ChunkReturned ==
    ck.pc = "returned" /\ ValidChunking(ck.chunk_size, ck.overlap)

HasText(s) == \E i \in 1..Len(s) : s[i] \notin Whitespace

\* C11: a text no longer than chunk_size comes back as exactly one chunk,
\* the text without its leading and trailing whitespace (stated for texts
\* that hold a character other than whitespace).
C11_ShortTextIsOneStrippedChunk ==
    (ChunkReturned /\ Len(ck.text) <= ck.chunk_size /\ HasText(ck.text))
        => ck.chunks = <<Strip(ck.text)>>

\* chs in order with the first overlap characters of every chunk after the
\* first removed.
RECURSIVE Reconstruction(_, _)
Reconstruction(chs, overlap) ==
    IF Len(chs) <= 1 THEN (IF chs = << >> THEN << >> ELSE chs[1])
    ELSE Reconstruction(SubSeq(chs, 1, Len(chs) - 1), overlap)
         \o SubSeq(chs[Len(chs)], overlap + 1, Len(chs[Len(chs)]))

Count(s, c) == Cardinality({i \in 1..Len(s) : s[i] = c})

\* C12: the chunks in order, with the overlap removed between consecutive
\* chunks, cover the text: no character of the text other than whitespace
\* occurs fewer times in the reconstruction than in the text.
C12_ReconstructionCoversText ==
    ChunkReturned
        => \A c \in ChunkAlphabet \ Whitespace :
              Count(Reconstruction(ck.chunks, ck.overlap), c) >= Count(ck.text, c)

\* C17: every chunk returned is non-empty and has no leading or trailing
\* whitespace, so that a text of whitespace alone gives no chunk.
C17_ChunksAreTrimmedAndNonEmpty ==
    ChunkReturned
        => \A i \in 1..Len(ck.chunks) :
              ck.chunks[i] # << >> /\ Strip(ck.chunks[i]) = ck.chunks[i]

\* Words: the maximal runs of characters that are neither whitespace nor
\* sentence punctuation.
Letter(c) == c \notin Whitespace \cup {".", "!", "?"}
IsWordAt(s, a, b) ==
    /\ a <= b
    /\ \A i \in a..b : Letter(s[i])
    /\ (a = 1 \/ ~Letter(s[a - 1]))
    /\ (b = Len(s) \/ ~Letter(s[b + 1]))
WordsOf(s) ==
    {SubSeq(s, a, b) : <<a, b>> \in
        {ab \in (1..Len(s)) \X (1..Len(s)) : IsWordAt(s, ab[1], ab[2])}}
FirstWord(s) == CHOOSE w \in {SubSeq(s, 1, b) : b \in {e \in 1..Len(s) : IsWordAt(s, 1, e)}} : TRUE
LastWord(s) ==
    CHOOSE w \in {SubSeq(s, a, Len(s)) :
                      a \in {e \in 1..Len(s) : IsWordAt(s, e, Len(s))}} : TRUE
\* The chunk neither begins nor ends with a piece of a word of the text.
WholeWordsAtEnds(chunk, text) ==
    /\ chunk # << >>
    /\ Letter(chunk[1]) => FirstWord(chunk) \in WordsOf(text)
    /\ Letter(chunk[Len(chunk)]) => LastWord(chunk) \in WordsOf(text)

\* C16: "The sky is blue. Water is wet." chunked with chunk_size 15 and
\* overlap 3 gives chunks none of which begins or ends inside a word.
C16_SkyBreaksAtWordBoundaries ==
    (/\ ck.pc = "returned"
     /\ ck.text = SkyText /\ ck.chunk_size = 15 /\ ck.overlap = 3)
        => \A i \in 1..Len(ck.chunks) : WholeWordsAtEnds(ck.chunks[i], ck.text)

\* C19: with valid parameters and a text longer than chunk_size, start is
\* greater after every pass of the loop than before it.
C19_ScanStrictlyAdvances ==
    (/\ ck.pc = "loop" /\ ck.iters > 0
     /\ ValidChunking(ck.chunk_size, ck.overlap)
     /\ Len(ck.text) > ck.chunk_size)
        => ck.start > ck.prev_start

\* A boundary marker at 0-based position p of window w: a period, an
\* exclamation mark or a question mark followed by whitespace, or a blank
\* line.
BoundaryAt(w, p) ==
    /\ 0 <= p /\ p + 2 <= Len(w)
    /\ \/ w[p + 1] \in {".", "!", "?"} /\ w[p + 2] \in Whitespace
       \/ w[p + 1] = "\n" /\ w[p + 2] = "\n"
\* Where the chunk of window w ends: after the last marker past the middle
\* of the window, or at chunk_size.
BoundaryCut(w, chunk_size) ==
    LET ps == {p \in 0..(Len(w) - 2) : BoundaryAt(w, p) /\ 2 * p > chunk_size}
    IN  IF ps = {} THEN chunk_size
        ELSE (CHOOSE p \in ps : \A q \in ps : p >= q) + 2

\* C20: the chunk of a window that does not reach the end of the text ends
\* right after the last boundary marker of the window past chunk_size / 2,
\* of whichever kind, and at chunk_size characters if there is none.
C20_CutAfterLastBoundary ==
    (/\ ck.pc = "loop" /\ ck.iters > 0
     /\ ValidChunking(ck.chunk_size, ck.overlap)
     /\ ck.prev_start >= 0
     /\ ck.prev_start + ck.chunk_size < Len(ck.text))
        => ck.start + ck.overlap =
              ck.prev_start
              + BoundaryCut(PySlice(ck.text, ck.prev_start,
                                    ck.prev_start + ck.chunk_size),
                            ck.chunk_size)

\* C13: a query with k greater than the number n >= 1 of chunks returns n
\* results, one for each chunk.
C13_QueryReturnsEveryChunk ==
    \A t \in Threads :
        (/\ ReturnedFrom(t, "query")
         /\ Len(chunks) >= 1
         /\ req[t].top_k > Len(chunks))
            => /\ Len(ret[t].results) = Len(chunks)
               /\ {ret[t].results[i].pos : i \in 1..Len(ret[t].results)}
                     = 0..(Len(chunks) - 1)

\* C14: on a corpus without chunks a query returns the empty list for every
\* k >= 0, without raising and without an embedding call.
C14_EmptyCorpusQueryReturnsEmpty ==
    \A t \in Threads :
        (Answered(t) /\ req[t].op = "query" /\ loc[t].pre.chunks = << >>)
            => /\ ret[t].status = "returned"
               /\ ret[t].results = << >>
               /\ loc[t].embed_calls = 0

\* Witness of C14: a query with k = 0 has returned on a corpus that holds a
\* document of empty text and no chunk.
C14_Witness ==
    \E t \in Threads :
        /\ ReturnedFrom(t, "query")
        /\ req[t].top_k = 0
        /\ documents # << >>
        /\ chunks = << >>
        /\ ret[t].results = << >>

\* C15: get_documents returns the documents added and not removed since, in
\* the order added, each with id, filename and type and without the text.
C15_ListIsAddedNotRemoved ==
    \A t \in Threads :
        ReturnedFrom(t, "list")
            => /\ ret[t].results = added.docs
               /\ \A i \in 1..Len(ret[t].results) :
                     DOMAIN ret[t].results[i] = {"id", "filename", "type"}

\* The corpus of the session registered under key k.
CorpusOf(k) == pipelines[session_objects[sessions[k]].pipeline]
\* The session key of the request thread t serves in this step.
KeyServed(t) ==
    IF handler[t].pc = "idle" THEN handler'[t].key ELSE handler[t].key
\* Thread t takes the step: a statement of its handler or of the pipeline
\* method the handler called.
Acts(t) == handler'[t] # handler[t] \/ pc'[t] # pc[t]
\* A step of a request leaves the registered corpus of every other session
\* key as it is.
OtherSessionsUntouched ==
    \A t \in Threads : \A k \in SessionKeys :
        (Acts(t) /\ KeyServed(t) # k /\ sessions[k] # 0)
            => /\ sessions'[k] = sessions[k]
               /\ CorpusOf(k)' = CorpusOf(k)

\* C18: add_document, remove_document and query on the corpus of one session
\* never change the documents, chunks or index of the corpus of another
\* session, however the requests of the sessions interleave.
C18_SessionsAreIsolated == [][OtherSessionsUntouched]_vars

\* Witness of C18: add_document of an upload for k1 has changed the corpus of
\* k1 and returned while a request for k2 is inside a method of the pipeline
\* of k2, which holds a document.
C18_Witness ==
    \E t \in Threads : \E u \in Threads \ {t} :
        /\ handler[t].pc = "in_call" /\ handler[t].op = "add"
        /\ handler[t].key = "k1"
        /\ pc[t] = "done" /\ ret[t].status = "returned"
        /\ handler[u].pc = "in_call" /\ handler[u].key = "k2"
        /\ pc[u] \notin {"idle", "done"}
        /\ sessions["k1"] # 0 /\ sessions["k2"] # 0
        /\ sessions["k1"] # sessions["k2"]
        /\ CorpusOf("k1").documents # << >>
        /\ CorpusOf("k2").documents # << >>
        /\ CorpusOf("k1") # CorpusOf("k2")

\* C22: every chunk after the first covers a position of the text that the
\* window before it did not cover; once a window has reached the end of the
\* text no further chunk is produced.  After a pass, the window of the pass
\* began at prev_start and ended at start + overlap, and the window before
\* it ended at prev_start + overlap.  Stated for passes in which start grew.
C22_EveryChunkCoversNewText ==
    (/\ ck.pc = "loop" /\ ck.iters >= 2
     /\ ValidChunking(ck.chunk_size, ck.overlap)
     /\ ck.prev_start >= 0
     /\ ck.start > ck.prev_start
     /\ Strip(PySlice(ck.text, ck.prev_start, ck.start + ck.overlap)) # << >>)
        => Min(ck.start + ck.overlap, Len(ck.text))
              > Min(ck.prev_start + ck.overlap, Len(ck.text))

\* C21: the requests of one session key all work on one Session object: the
\* Session a request obtained from get_session is the one the registry holds
\* for its key, so that what one request uploads the later ones see.
C21_OneSessionPerKey ==
    \A t \in Threads :
        handler[t].session # 0 => handler[t].session = sessions[handler[t].key]

\* The minutes since the Session object id was last active.
IdleFor(id) == now - session_objects[id].last_active
\* cleanup_sessions takes a step on thread t.
CleanupSteps(t) == handler[t].op = "health" /\ handler'[t] # handler[t]
\* What cleanup_sessions removes has been idle for longer than the TTL.
CleanupRemovesOnlyExpired ==
    \A t \in Threads : \A k \in SessionKeys :
        (CleanupSteps(t) /\ sessions[k] # 0 /\ sessions'[k] = 0)
            => IdleFor(sessions[k]) > SESSION_TTL_MINUTES
\* When cleanup_sessions has returned, no session older than its cutoff is
\* left in the registry.
CleanupRemovesAllExpired ==
    \A t \in Threads : \A k \in SessionKeys :
        (/\ CleanupSteps(t) /\ handler'[t].pc = "hc_return" /\ sessions'[k] # 0)
            => session_objects'[sessions'[k]].last_active >= handler[t].cutoff
\* A key the registry does not hold is given a Session object that did not
\* exist, with a pipeline that did not exist and is empty, and no messages.
AbsentKeyGetsNewSession ==
    \A k \in SessionKeys :
        (sessions[k] = 0 /\ sessions'[k] # 0)
            => /\ sessions'[k] > Len(session_objects)
               /\ session_objects'[sessions'[k]].pipeline > Len(pipelines)
               /\ pipelines'[session_objects'[sessions'[k]].pipeline] = EmptyCorpus
               /\ session_objects'[sessions'[k]].messages = << >>

\* C23: cleanup_sessions removes the sessions whose last activity is more
\* than SESSION_TTL_MINUTES ago and no others, so a session get_session
\* touched within the TTL is never removed by it; and a key that
\* cleanup_sessions or end_session removed is given a new Session with an
\* empty corpus and an empty history.
C23_CleanupRemovesExactlyExpired ==
    [][/\ CleanupRemovesOnlyExpired
       /\ CleanupRemovesAllExpired
       /\ AbsentKeyGetsNewSession]_vars

=============================================================================
